---- MODULE Spec2Model ----
(***************************************************************************)
(* Model of AlbroIRSpectroscopy.py: detectpeaks (peak detection, isotope   *)
(* filtering, branch split, quantum-number assignment) and fit_p_branch /  *)
(* fit_r_branch (curve fit and reordering of the returned errors).         *)
(*                                                                         *)
(* numpy arrays are sequences; the code's 0-based subscripts are kept and  *)
(* read through Idx, which has numpy's subscript semantics (a negative     *)
(* subscript counts from the end).  Absorption values are integers, so the *)
(* code's float comparisons are written as integer cross-multiplications.  *)
(***************************************************************************)
EXTENDS Integers, Sequences, FiniteSets, TLC

VARIABLES call, pc, err, errline,
          absorption, wavenumber, filter_peaks, height, distance,
          peaks, peak_prom, candidates, split, p_start, r_start,
          i, filt_peaks, reads, rbranch, pbranch, jr, jp,
          xdata, ydata, fundamental, invoked, fit, pcov, optimum, ret

vars == <<call, pc, err, errline,
          absorption, wavenumber, filter_peaks, height, distance,
          peaks, peak_prom, candidates, split, p_start, r_start,
          i, filt_peaks, reads, rbranch, pbranch, jr, jp,
          xdata, ydata, fundamental, invoked, fit, pcov, optimum, ret>>

detect_vars == <<absorption, wavenumber, filter_peaks, height, distance,
                 peaks, peak_prom, candidates, split, p_start, r_start,
                 i, filt_peaks, reads, rbranch, pbranch, jr, jp>>

fit_vars == <<xdata, ydata, fundamental, invoked, fit, pcov, optimum, ret>>

(***************************************************************************)
(* Bounds of the model.                                                    *)
(***************************************************************************)
\* number of samples of a trace
TraceLen == 11
\* largest absorption value of a sample
MaxAbs == 3
\* largest minimal peak distance passed in manual mode
MaxDist == 3
\* largest number of (J, wavenumber) pairs passed to a fit
MaxPairs == 5
\* largest parameter value / variance the optimizer reports
MaxVal == 1

(***************************************************************************)
(* Python / numpy helpers.                                                 *)
(***************************************************************************)
\* height = None
None == <<>>

\* a[k] with a 0-based subscript; a negative subscript counts from the end
Idx(a, k) == IF k < 0 THEN a[Len(a) + k + 1] ELSE a[k + 1]

\* a[k] raises IndexError
OutOfBounds(a, k) == k >= Len(a) \/ k < 0 - Len(a)

Abs(x) == IF x < 0 THEN 0 - x ELSE x

Max(S) == CHOOSE m \in S : \A y \in S : y <= m

Min(S) == CHOOSE m \in S : \A y \in S : m <= y

RECURSIVE Sum(_)
Sum(a) == IF a = <<>> THEN 0 ELSE a[1] + Sum(Tail(a))

RECURSIVE SortedSeq(_)
SortedSeq(S) == IF S = {} THEN <<>>
                ELSE <<Min(S)>> \o SortedSeq(S \ {Min(S)})

\* abs(x - y)/y > num/den, as numpy evaluates it (y = 0 gives inf or nan)
RelDiffExceeds(x, y, num, den) ==
    IF y > 0 THEN den * Abs(x - y) > num * y
    ELSE IF y = 0 THEN x # y
    ELSE FALSE

\* np.arange(lo, hi, 1)
Arange(lo, hi) == [k \in 1..(IF hi > lo THEN hi - lo ELSE 0) |-> lo + k - 1]

\* np.flip(a)
Flip(a) == [k \in 1..Len(a) |-> a[Len(a) + 1 - k]]

\* np.delete(a, obj): a without the positions (0-based) listed in obj
NpDelete(a, obj) ==
    LET drop == {obj[k] : k \in 1..Len(obj)}
        keep == SortedSeq({k \in 0..(Len(a) - 1) : k \notin drop})
    IN [k \in 1..Len(keep) |-> Idx(a, keep[k])]

(***************************************************************************)
(* scipy.signal.find_peaks, as far as detectpeaks uses it.                 *)
(***************************************************************************)
\* local maxima: the middle sample of every plateau that is strictly higher
\* than both samples next to it; the first and the last sample never count
LocalMaxima(x) ==
    LET n == Len(x)
        RunEnd(l) == Min({k \in l..(n - 1) :
                             k = n - 1 \/ Idx(x, k + 1) # Idx(x, l)})
        starts == {l \in 1..(n - 2) :
                      /\ Idx(x, l - 1) < Idx(x, l)
                      /\ RunEnd(l) <= n - 2
                      /\ Idx(x, RunEnd(l) + 1) < Idx(x, l)}
    IN SortedSeq({(l + RunEnd(l)) \div 2 : l \in starts})

\* keep the peaks p with x[p] >= num/den
SelectByHeight(x, pk, num, den) ==
    SelectSeq(pk, LAMBDA p : den * Idx(x, p) >= num)

\* prominence of the peak at sample p
Prominence(x, p) ==
    LET n == Len(x)
        higherL == {k \in 0..p : Idx(x, k) > Idx(x, p)}
        higherR == {k \in p..(n - 1) : Idx(x, k) > Idx(x, p)}
        lo == IF higherL = {} THEN 0 ELSE Max(higherL) + 1
        hi == IF higherR = {} THEN n - 1 ELSE Min(higherR) - 1
        left_min == Min({Idx(x, k) : k \in lo..p})
        right_min == Min({Idx(x, k) : k \in p..hi})
    IN Idx(x, p) - Max({left_min, right_min})

\* keep the peaks whose prominence is >= num/den
SelectByProminence(x, pk, num, den) ==
    SelectSeq(pk, LAMBDA p : den * Prominence(x, p) >= num)

\* distance filter: visit the peaks from the highest to the lowest (of equal
\* peaks the later one first) and drop every peak closer than dist samples
\* to a peak that is kept
RECURSIVE DistanceKeep(_, _, _, _, _)
DistanceKeep(x, pk, dist, todo, keep) ==
    IF todo = {} THEN keep
    ELSE LET top == Max({Idx(x, pk[k]) : k \in todo})
             j == Max({k \in todo : Idx(x, pk[k]) = top})
             near == {k \in 1..Len(pk) : k # j /\ Abs(pk[k] - pk[j]) < dist}
         IN DistanceKeep(x, pk, dist, todo \ {j},
                         IF j \in keep THEN keep \ near ELSE keep)

SelectByDistance(x, pk, dist) ==
    LET keep == DistanceKeep(x, pk, dist, 1..Len(pk), 1..Len(pk))
    IN SortedSeq({pk[k] : k \in keep})

\* signal.find_peaks(absorption, height = height, distance = distance)
FindPeaksManual(x, h, dist) ==
    SelectByDistance(x, SelectByHeight(x, LocalMaxima(x), h, 1), dist)

\* signal.find_peaks(absorption, height = 1.005*np.mean(absorption),
\*                   prominence = 0.015)
FindPeaksAuto(x) ==
    SelectByProminence(x,
        SelectByHeight(x, LocalMaxima(x), 1005 * Sum(x), 1000 * Len(x)),
        15, 1000)

(***************************************************************************)
(* detectpeaks: the pieces of its body.                                    *)
(***************************************************************************)
\* filter_peaks == False and height != None
ManualMode(fp, h) == fp = FALSE /\ h # None

\* spacing = np.abs(peaks[:-1] - peaks[1:])
Spacing(pk) == [k \in 1..(Len(pk) - 1) |-> Abs(pk[k] - pk[k + 1])]

\* faulty variant: the last of the largest gaps, np.where(...)[0][-1]
FirstMaxSpacing_last(pk) ==
    LET sp == Spacing(pk)
        top == Max({sp[k] : k \in 1..Len(sp)})
    IN Max({k \in 1..Len(sp) : sp[k] = top}) - 1

\* np.where(spacing == np.max(spacing))[0][0]
FirstMaxSpacing(pk) ==
    LET sp == Spacing(pk)
        top == Max({sp[k] : k \in 1..Len(sp)})
    IN Min({k \in 1..Len(sp) : sp[k] = top}) - 1

\* the 20% prominence rule of the R-branch anchor
AnchorShift(prom, s) ==
    RelDiffExceeds(Idx(prom, s), Idx(prom, s + 1), 20, 100)

\* faulty variant: the difference taken relative to the peak itself, not to the next
NextSkip_own(x, pk, k) ==
    RelDiffExceeds(Idx(x, Idx(pk, k + 1)), Idx(x, Idx(pk, k)), 9, 10)

\* the 90% rule: next_perc > 0.9
NextSkip(x, pk, k) ==
    RelDiffExceeds(Idx(x, Idx(pk, k)), Idx(x, Idx(pk, k + 1)), 9, 10)

\* faulty variant: the pass starts at the first candidate, range(0, len(peaks)-1)
FilterFirst_zero == 1 - 1

\* first value of the loop variable of the filtering pass
FilterFirst == 1

\* the test that appends i to filt_peaks
FilterTest(x, peak, prev_peak, next_peak, ps, rs) ==
    /\ Idx(x, peak) < Idx(x, prev_peak)
    /\ Idx(x, peak) < Idx(x, next_peak)
    /\ peak # ps
    /\ peak # rs

\* int(0.5*(peaks[split] + peaks[split+1]))
SplitIndex(pk, s) == (Idx(pk, s) + Idx(pk, s + 1)) \div 2

\* faulty variant: a peak at the split wavenumber goes to the R-branch
InRBranch_ge(w, sw) == w >= sw

\* the test that puts a peak in the R-branch
InRBranch(w, sw) == w > sw

\* the loop that fills rbranch / pbranch
BranchOf(w, pk, sw, r) ==
    LET ws == [k \in 1..Len(pk) |-> Idx(w, pk[k])]
    IN SelectSeq(ws, LAMBDA v : InRBranch(v, sw) = r)

\* faulty variant: the np.flip is missing
QuantumR_noflip(n) == Arange(0, n)

\* jr = np.flip(np.arange(0, len(rbranch), 1))
QuantumR(n) == Flip(Arange(0, n))

\* jp = np.arange(1, len(pbranch)+1, 1)
QuantumP(n) == Arange(1, n + 1)

(***************************************************************************)
(* Inputs.                                                                 *)
(***************************************************************************)
\* traces whose odd interior samples carry a peak of height 0..MaxAbs over a
\* zero baseline
Slots == {k \in 1..(TraceLen - 2) : k % 2 = 1}

Traces == {[k \in 1..TraceLen |-> IF (k - 1) \in Slots THEN h[k - 1] ELSE 0] :
              h \in [Slots -> 0..MaxAbs]}

\* wavenumber axis: falls by one per sample, but for at most one step, which
\* is flat ("flat") or jumps up above all earlier samples ("jump")
Axis(n, at, kind) ==
    [k \in 1..n |-> (2 * n - k) + IF (k - 1) > at /\ kind = "flat" THEN 1
                                  ELSE IF (k - 1) > at /\ kind = "jump" THEN n
                                  ELSE 0]

\* the strictly falling axis, the axes with one flat step, and the axis that
\* jumps up in the middle of the trace
Axes == {Axis(TraceLen, TraceLen, "none")}
        \cup {Axis(TraceLen, at, "flat") : at \in 0..(TraceLen - 2)}
        \cup {Axis(TraceLen, TraceLen \div 2, "jump")}

\* (filter_peaks, height, distance)
Modes == {<<TRUE, None, 40>>, <<FALSE, None, 40>>,
          <<FALSE, <<1>>, MaxDist>>, <<FALSE, <<MaxAbs>>, 1>>}

Raise(e, l) == pc' = "error" /\ err' = e /\ errline' = l

InitDetect ==
    /\ call = "detectpeaks"
    /\ pc = "detect"
    /\ err = "" /\ errline = 0
    /\ \/ absorption \in Traces /\ wavenumber \in Axes
       \/ absorption = <<>> /\ wavenumber = <<>>
       \/ absorption \in Traces
          /\ wavenumber = Axis(TraceLen - 1, TraceLen, "none")
    /\ \E m \in Modes : filter_peaks = m[1] /\ height = m[2] /\ distance = m[3]
    /\ peaks = <<>> /\ peak_prom = <<>> /\ candidates = <<>>
    /\ split = 0 /\ p_start = 0 /\ r_start = 0
    /\ i = 0 /\ filt_peaks = <<>> /\ reads = {}
    /\ rbranch = <<>> /\ pbranch = <<>> /\ jr = <<>> /\ jp = <<>>
    /\ xdata = <<>> /\ ydata = <<>> /\ fundamental = FALSE
    /\ invoked = FALSE /\ fit = <<>> /\ pcov = <<>> /\ optimum = <<>>
    /\ ret = <<>>

(***************************************************************************)
(* detectpeaks: the steps.                                                 *)
(***************************************************************************)
\* lines 104-129: the assertions and the call of find_peaks
Detect ==
    /\ call = "detectpeaks" /\ pc = "detect"
    /\ IF Len(absorption) # Len(wavenumber)
       THEN Raise("AssertionError", 104)
            /\ UNCHANGED <<peaks, peak_prom, candidates>>
       ELSE IF Len(absorption) = 0
       THEN Raise("AssertionError", 105)
            /\ UNCHANGED <<peaks, peak_prom, candidates>>
       ELSE IF ManualMode(filter_peaks, height)
       THEN /\ peaks' = FindPeaksManual(absorption, height[1], distance)
            /\ candidates' = peaks'
            /\ pc' = "split"
            /\ UNCHANGED <<peak_prom, err, errline>>
       ELSE /\ peaks' = FindPeaksAuto(absorption)
            /\ candidates' = peaks'
            /\ peak_prom' = [k \in 1..Len(peaks') |->
                                Prominence(absorption, peaks'[k])]
            /\ pc' = "anchor"
            /\ UNCHANGED <<err, errline>>
    /\ UNCHANGED <<call, absorption, wavenumber, filter_peaks, height, distance,
                   split, p_start, r_start, i, filt_peaks, reads,
                   rbranch, pbranch, jr, jp>>
    /\ UNCHANGED fit_vars

\* lines 131-144: the largest gap of the raw candidates and the two anchors
SelectAnchors ==
    /\ call = "detectpeaks" /\ pc = "anchor"
    /\ IF Len(peaks) < 2
       THEN Raise("ValueError", 136)
            /\ UNCHANGED <<split, p_start, r_start, i, reads>>
       ELSE LET s == FirstMaxSpacing(peaks)
                shift == AnchorShift(peak_prom, s)
            IN /\ split' = s
               /\ p_start' = Idx(peaks, s + 1)
               /\ r_start' = IF shift THEN Idx(peaks, s - 1) ELSE Idx(peaks, s)
               /\ reads' = reads \cup {s + 1, s}
                                 \cup (IF shift THEN {s - 1} ELSE {})
               /\ i' = FilterFirst
               /\ pc' = "filter"
               /\ UNCHANGED <<err, errline>>
    /\ UNCHANGED <<call, absorption, wavenumber, filter_peaks, height, distance,
                   peaks, peak_prom, candidates, filt_peaks,
                   rbranch, pbranch, jr, jp>>
    /\ UNCHANGED fit_vars

\* lines 146-166: one iteration of the filtering pass
FilterStep ==
    /\ call = "detectpeaks" /\ pc = "filter"
    /\ i < Len(peaks) - 1
    /\ LET peak == Idx(peaks, i)
           prev_peak == Idx(peaks, i - 1)
           skip == NextSkip(absorption, peaks, i)
       IN IF skip /\ OutOfBounds(peaks, i + 2)
          THEN /\ Raise("IndexError", 160)
               /\ reads' = reads \cup {i, i - 1, i + 1, i + 2}
               /\ UNCHANGED <<i, filt_peaks>>
          ELSE LET next_peak == IF skip THEN Idx(peaks, i + 2)
                                ELSE Idx(peaks, i + 1)
               IN /\ filt_peaks' =
                        IF FilterTest(absorption, peak, prev_peak, next_peak,
                                      p_start, r_start)
                        THEN Append(filt_peaks, i) ELSE filt_peaks
                  /\ reads' = reads \cup {i, i - 1, i + 1}
                                    \cup (IF skip THEN {i + 2} ELSE {})
                  /\ i' = i + 1
                  /\ UNCHANGED <<pc, err, errline>>
    /\ UNCHANGED <<call, absorption, wavenumber, filter_peaks, height, distance,
                   peaks, peak_prom, candidates, split, p_start, r_start,
                   rbranch, pbranch, jr, jp>>
    /\ UNCHANGED fit_vars

\* line 168: the loop is over, the filtered candidates are deleted
DeletePeaks ==
    /\ call = "detectpeaks" /\ pc = "filter"
    /\ i >= Len(peaks) - 1
    /\ peaks' = NpDelete(peaks, filt_peaks)
    /\ pc' = "split"
    /\ UNCHANGED <<call, err, errline, absorption, wavenumber, filter_peaks,
                   height, distance, peak_prom, candidates, split, p_start,
                   r_start, i, filt_peaks, reads, rbranch, pbranch, jr, jp>>
    /\ UNCHANGED fit_vars

\* lines 170-188: the split wavenumber and the two branch lists
SplitBranches ==
    /\ call = "detectpeaks" /\ pc = "split"
    /\ IF Len(peaks) < 2
       THEN Raise("ValueError", 172)
            /\ UNCHANGED <<split, rbranch, pbranch>>
       ELSE LET s == FirstMaxSpacing(peaks)
                sw == Idx(wavenumber, SplitIndex(peaks, s))
            IN /\ split' = sw
               /\ rbranch' = BranchOf(wavenumber, peaks, sw, TRUE)
               /\ pbranch' = BranchOf(wavenumber, peaks, sw, FALSE)
               /\ pc' = "label"
               /\ UNCHANGED <<err, errline>>
    /\ UNCHANGED <<call, absorption, wavenumber, filter_peaks, height, distance,
                   peaks, peak_prom, candidates, p_start, r_start,
                   i, filt_peaks, reads, jr, jp>>
    /\ UNCHANGED fit_vars

\* lines 190-210: the quantum numbers, the series labels and the return
LabelBranches ==
    /\ call = "detectpeaks" /\ pc = "label"
    /\ jr' = QuantumR(Len(rbranch))
    /\ jp' = QuantumP(Len(pbranch))
    /\ IF Len(rbranch) = 0 THEN Raise("IndexError", 203)
       ELSE IF Len(pbranch) = 0 THEN Raise("IndexError", 205)
       ELSE pc' = "done" /\ UNCHANGED <<err, errline>>
    /\ UNCHANGED <<call, absorption, wavenumber, filter_peaks, height, distance,
                   peaks, peak_prom, candidates, split, p_start, r_start,
                   i, filt_peaks, reads, rbranch, pbranch>>
    /\ UNCHANGED fit_vars

(***************************************************************************)
(* fit_p_branch / fit_r_branch.                                            *)
(***************************************************************************)
\* the free parameters of f, in the order of its signature: the order in
\* which optimize.curve_fit returns the optimum and the covariance
ParamOrderP(fund) == IF fund THEN <<"c", "b", "a", "d">>
                     ELSE <<"c", "b", "a", "d">>

ParamOrderR(fund) == IF fund THEN <<"c", "b", "a", "d">>
                     ELSE <<"c", "b", "a", "d">>

\* np.sqrt of a perfect square
Sqrt(v) == CHOOSE r \in 0..v : r * r = v

\* np.sqrt(np.diag(pcov))
StdErrors(cov) == [k \in 1..Len(cov) |->
                      [par |-> cov[k].par, val |-> Sqrt(cov[k].val)]]

\* faulty variant: the errors are returned in the optimizer's order
ReorderErrorsP_asis(e) == e

\* fit_p_branch: c_err, b_err, a_err, d_err = pcov
\*               pcov = [a_err, b_err, c_err, d_err]
ReorderErrorsP(e) == <<e[3], e[2], e[1], e[4]>>

\* fit_p_branch: c, b, a, d = fit; return a, b, c, d
ReturnValuesP(f) == <<f[3], f[2], f[1], f[4]>>

\* fit_r_branch: c_err, b_err, a_err, d_err = pcov
\*               pcov = [a_err, b_err, c_err, d_err]
ReorderErrorsR(e) == <<e[3], e[2], e[1], e[4]>>

\* fit_r_branch: c, b, a, d = fit; return a, b, c, d
ReturnValuesR(f) == <<f[3], f[2], f[1], f[4]>>

\* what optimize.curve_fit can hand back for the given parameter order: an
\* optimum and the diagonal of a covariance matrix (four different variances,
\* all perfect squares), entry k of both belonging to parameter k of the order
Optima(order) ==
    {[popt |-> [k \in 1..4 |-> [par |-> order[k], val |-> v[k]]],
      pcov |-> [k \in 1..4 |->
                  [par |-> order[k],
                   val |-> (((k + r) % 4) + e) * (((k + r) % 4) + e)]]] :
        v \in [1..4 -> 0..MaxVal], r \in 0..3, e \in 0..MaxVal}

InitFit ==
    /\ call \in {"fit_p_branch", "fit_r_branch"}
    /\ pc = "fit"
    /\ err = "" /\ errline = 0
    /\ \E n \in 0..MaxPairs :
          /\ xdata = (IF call = "fit_p_branch" THEN QuantumP(n) ELSE QuantumR(n))
          /\ ydata = [k \in 1..n |-> 2 * MaxPairs - k]
    /\ fundamental \in BOOLEAN
    /\ invoked = FALSE /\ fit = <<>> /\ pcov = <<>> /\ optimum = <<>>
    /\ ret = <<>>
    /\ absorption = <<>> /\ wavenumber = <<>>
    /\ filter_peaks = TRUE /\ height = None /\ distance = 40
    /\ peaks = <<>> /\ peak_prom = <<>> /\ candidates = <<>>
    /\ split = 0 /\ p_start = 0 /\ r_start = 0
    /\ i = 0 /\ filt_peaks = <<>> /\ reads = {}
    /\ rbranch = <<>> /\ pbranch = <<>> /\ jr = <<>> /\ jp = <<>>

\* optimize.curve_fit(f, xdata, ydata) with the 4 free parameters of f: no
\* data is a ValueError, fewer data than parameters a TypeError, and a fit
\* that does not converge a RuntimeError, all raised by curve_fit itself
CurveFit(order, line) ==
    /\ invoked' = TRUE
    /\ IF Len(ydata) = 0
       THEN Raise("ValueError", line) /\ UNCHANGED <<fit, pcov, optimum>>
       ELSE IF Len(ydata) < Len(order)
       THEN Raise("TypeError", line) /\ UNCHANGED <<fit, pcov, optimum>>
       ELSE \/ Raise("RuntimeError", line) /\ UNCHANGED <<fit, pcov, optimum>>
            \/ \E o \in Optima(order) :
                  /\ fit' = o.popt
                  /\ pcov' = o.pcov
                  /\ optimum' = o
                  /\ pc' = "unpack"
                  /\ UNCHANGED <<err, errline>>
    /\ UNCHANGED <<call, xdata, ydata, fundamental, ret>>
    /\ UNCHANGED detect_vars

\* fit_p_branch, lines 283-294: the choice of f and the fit
FitP_CurveFit ==
    /\ call = "fit_p_branch" /\ pc = "fit"
    /\ CurveFit(ParamOrderP(fundamental), 294)

\* fit_p_branch, lines 296-316: the standard errors, their reordering and
\* the return
FitP_Return ==
    /\ call = "fit_p_branch" /\ pc = "unpack"
    /\ pcov' = ReorderErrorsP(StdErrors(pcov))
    /\ ret' = [values |-> ReturnValuesP(fit), errors |-> pcov']
    /\ pc' = "done"
    /\ UNCHANGED <<call, err, errline, xdata, ydata, fundamental, invoked,
                   fit, optimum>>
    /\ UNCHANGED detect_vars

\* fit_r_branch, lines 360-371: the choice of f and the fit
FitR_CurveFit ==
    /\ call = "fit_r_branch" /\ pc = "fit"
    /\ CurveFit(ParamOrderR(fundamental), 371)

\* fit_r_branch, lines 372-392: the standard errors, their reordering and
\* the return
FitR_Return ==
    /\ call = "fit_r_branch" /\ pc = "unpack"
    /\ pcov' = ReorderErrorsR(StdErrors(pcov))
    /\ ret' = [values |-> ReturnValuesR(fit), errors |-> pcov']
    /\ pc' = "done"
    /\ UNCHANGED <<call, err, errline, xdata, ydata, fundamental, invoked,
                   fit, optimum>>
    /\ UNCHANGED detect_vars

Init == InitDetect \/ InitFit

Next == Detect \/ SelectAnchors \/ FilterStep \/ DeletePeaks
        \/ SplitBranches \/ LabelBranches
        \/ FitP_CurveFit \/ FitP_Return \/ FitR_CurveFit \/ FitR_Return

Spec == Init /\ [][Next]_vars

(***************************************************************************)
(* Properties.                                                             *)
(***************************************************************************)
IsDetect == call = "detectpeaks"

IsFit == call \in {"fit_p_branch", "fit_r_branch"}

AutoMode == IsDetect /\ ~(filter_peaks = FALSE /\ height # None)

\* the filtering pass of automatic mode has run to its end (line 168 passed)
Filtered == AutoMode /\ (pc \in {"split", "label", "done"}
                         \/ (pc = "error" /\ errline > 168))

\* the branch lists have been filled (line 188 passed)
Assigned == IsDetect /\ (pc \in {"label", "done"}
                         \/ (pc = "error" /\ errline > 188))

StrictlyDecreasing(a) == \A k \in 1..(Len(a) - 1) : a[k] > a[k + 1]

Count(a, v) == Cardinality({k \in 1..Len(a) : a[k] = v})

\* sample-index gap after position t (0-based) of the list pk
GapAfter(pk, t) == pk[t + 2] - pk[t + 1]

\* s is the position before the largest gap of pk
LargestGapAt(pk, s) == \A t \in 0..(Len(pk) - 2) : GapAfter(pk, t) <= GapAfter(pk, s)

\* s is the position before the first of the largest gaps of pk
FirstLargestGapAt(pk, s) ==
    /\ LargestGapAt(pk, s)
    /\ \A t \in 0..(s - 1) : GapAfter(pk, t) < GapAfter(pk, s)

\* wavenumber of the sample midway between the peaks at positions s and s+1
MidWavenumber(pk, s) == wavenumber[((pk[s + 1] + pk[s + 2]) \div 2) + 1]

\* wavenumbers of the peaks at the 1-based positions lo..hi of peaks
PeakWavenumbers(lo, hi) ==
    [k \in 1..(hi - lo + 1) |-> wavenumber[peaks[lo + k - 1] + 1]]

\* C1: when detectpeaks returns, the surviving peaks are split between
\* rbranch and pbranch, each in exactly one of them; every wavenumber of
\* rbranch is strictly above, and every wavenumber of pbranch at or below, the
\* wavenumber of the sample midway between the two peaks around the largest
\* sample-index gap.
C1_BranchSplit ==
    (IsDetect /\ pc = "done") =>
        \E s \in 0..(Len(peaks) - 2) :
            /\ LargestGapAt(peaks, s)
            /\ \A k \in 1..Len(rbranch) : rbranch[k] > MidWavenumber(peaks, s)
            /\ \A k \in 1..Len(pbranch) : pbranch[k] <= MidWavenumber(peaks, s)
            /\ Len(rbranch) + Len(pbranch) = Len(peaks)
            /\ \A k \in 1..Len(peaks) :
                  LET v == wavenumber[peaks[k] + 1]
                  IN Count(rbranch, v) + Count(pbranch, v)
                         = Count(PeakWavenumbers(1, Len(peaks)), v)

\* C1 witness: a call returned with three or more peaks and a P-branch peak
\* that lies exactly at the split wavenumber.
C1_Witness ==
    /\ IsDetect /\ pc = "done" /\ Len(peaks) >= 3
    /\ \E k \in 1..Len(pbranch) : pbranch[k] = split
    /\ Len(pbranch) >= 2

\* C2: when detectpeaks returns, jr counts down from len(rbranch)-1 to 0 and
\* jp counts up from 1 to len(pbranch); on a strictly decreasing wavenumber
\* axis both branches are in decreasing wavenumber order, so J = 0 is the
\* R peak next to the split and J = 1 the P peak next to it.
C2_QuantumNumbers ==
    (IsDetect /\ pc = "done") =>
        /\ Len(jr) = Len(rbranch)
        /\ Len(jp) = Len(pbranch)
        /\ \A k \in 1..Len(jr) : jr[k] = Len(rbranch) - k
        /\ \A k \in 1..Len(jp) : jp[k] = k
        /\ StrictlyDecreasing(wavenumber) =>
              /\ StrictlyDecreasing(rbranch)
              /\ StrictlyDecreasing(pbranch)
              /\ rbranch[Len(rbranch)] > pbranch[1]
              /\ jr[Len(jr)] = 0
              /\ jp[1] = 1

\* C2 witness: a call on a strictly decreasing axis returned two or more
\* peaks in each branch.
C2_Witness ==
    /\ IsDetect /\ pc = "done" /\ StrictlyDecreasing(wavenumber)
    /\ Len(rbranch) >= 2 /\ Len(pbranch) >= 2

\* C3: in automatic mode the filtering pass never marks the first or the last
\* raw candidate, and both open and close the peak list used for the branch
\* split.
C3_EdgesKept ==
    AutoMode =>
        /\ \A k \in 1..Len(filt_peaks) :
              filt_peaks[k] > 0 /\ filt_peaks[k] < Len(candidates) - 1
        /\ Filtered =>
              /\ Len(peaks) >= 2
              /\ peaks[1] = candidates[1]
              /\ peaks[Len(peaks)] = candidates[Len(candidates)]

\* C3 witness: the pass has removed a candidate from a list whose first and
\* last candidates are both lower than the candidate next to them.
C3_Witness ==
    /\ Filtered /\ Len(candidates) >= 4 /\ Len(peaks) < Len(candidates)
    /\ Idx(absorption, candidates[1]) < Idx(absorption, candidates[2])
    /\ Idx(absorption, candidates[Len(candidates)])
          < Idx(absorption, candidates[Len(candidates) - 1])

ReturnOrder == <<"a", "b", "c", "d">>

\* the entry of the tagged list t that belongs to parameter p
EntryOf(t, p) == t[CHOOSE k \in 1..Len(t) : t[k].par = p]

\* C4: when a fit returns, the values are (a, b, c, d) and position k of the
\* error list is the standard error the optimizer reported for the parameter
\* at position k of the values.
C4_ErrorOrder ==
    (IsFit /\ pc = "done") =>
        \A k \in 1..4 :
            /\ ret.values[k] = EntryOf(optimum.popt, ReturnOrder[k])
            /\ ret.errors[k].par = ret.values[k].par
            /\ ret.errors[k].val * ret.errors[k].val
                  = EntryOf(optimum.pcov, ReturnOrder[k]).val

\* C4 witness: a fit returned after the optimizer reported four different
\* variances for c, b, a and d.
C4_Witness ==
    /\ IsFit /\ pc = "done"
    /\ \A k, l \in 1..4 : k # l => optimum.pcov[k].val # optimum.pcov[l].val
    /\ optimum.popt[1].val # optimum.popt[3].val

\* C5: a call of detectpeaks whose branch assignment left rbranch or pbranch
\* empty ends in EmptyBranchError.
C5_EmptyBranchError ==
    (Assigned /\ pc \in {"done", "error"}
              /\ (rbranch = <<>> \/ pbranch = <<>>)) =>
        (pc = "error" /\ err = "EmptyBranchError")

\* C6: a call of detectpeaks whose peak detection found fewer than 2
\* candidates ends in InsufficientPeaksError.
C6_InsufficientPeaksError ==
    (IsDetect /\ pc \in {"done", "error"} /\ errline > 106
              /\ Len(candidates) < 2) =>
        (pc = "error" /\ err = "InsufficientPeaksError")

\* C7: a fit called with fewer than 4 pairs ends in UnderdeterminedFitError
\* without the optimizer having been invoked.
C7_UnderdeterminedFitError ==
    (IsFit /\ pc # "fit" /\ Len(ydata) < 4) =>
        (pc = "error" /\ err = "UnderdeterminedFitError" /\ ~invoked)

\* absorption of the raw candidate at position k (0-based)
CandAbs(k) == Idx(absorption, candidates[k + 1])

\* the 90% rule fires at candidate k
Skips(k) == 10 * Abs(CandAbs(k) - CandAbs(k + 1)) > 9 * CandAbs(k + 1)

\* position of the next neighbour of candidate k
NextOf(k) == IF Skips(k) THEN k + 2 ELSE k + 1

\* candidate k is strictly lower than candidate k-1 and than its next
\* neighbour
Lower(k) ==
    /\ NextOf(k) < Len(candidates)
    /\ CandAbs(k) < CandAbs(k - 1)
    /\ CandAbs(k) < CandAbs(NextOf(k))

\* positions of the raw candidates that are missing from peaks
Removed == {k \in 0..(Len(candidates) - 1) :
               \A l \in 1..Len(peaks) : peaks[l] # candidates[k + 1]}

Interior == 1..(Len(candidates) - 2)

\* position before the first largest gap of the raw candidates
GapPos == CHOOSE s \in 0..(Len(candidates) - 2) : FirstLargestGapAt(candidates, s)

\* the 20% prominence rule fires
Shifted == 100 * Abs(peak_prom[GapPos + 1] - peak_prom[GapPos + 2])
               > 20 * peak_prom[GapPos + 2]

\* candidate k is the P anchor or the R anchor
IsAnchor(k) == k = GapPos + 1 \/ k = (IF Shifted THEN GapPos - 1 ELSE GapPos)

C9_ReadsInRange ==
    AutoMode => \A k \in reads : k >= 0 /\ k <= Len(candidates) - 1

\* C10: on a strictly decreasing wavenumber axis, with two or more surviving
\* peaks, no two of them adjacent, the branch split does not fail: the
\* R-branch is the peaks up to the first largest gap, the P-branch the peaks
\* after it, and neither is empty.
C10_GapSplit ==
    (IsDetect /\ StrictlyDecreasing(wavenumber) /\ Len(peaks) >= 2
        /\ (\A t \in 0..(Len(peaks) - 2) : GapAfter(peaks, t) >= 2)
        /\ (pc \in {"label", "done"} \/ (pc = "error" /\ errline > 168))) =>
        /\ pc # "error"
        /\ \E s \in 0..(Len(peaks) - 2) :
              /\ FirstLargestGapAt(peaks, s)
              /\ rbranch = PeakWavenumbers(1, s + 1)
              /\ pbranch = PeakWavenumbers(s + 2, Len(peaks))
        /\ rbranch # <<>> /\ pbranch # <<>>

\* C10 witness: a call on a strictly decreasing axis returned from peaks
\* with two equally large largest gaps.
C10_Witness ==
    /\ IsDetect /\ pc = "done" /\ StrictlyDecreasing(wavenumber)
    /\ \E s, t \in 0..(Len(peaks) - 2) :
          s # t /\ LargestGapAt(peaks, s) /\ LargestGapAt(peaks, t)

====
